---- MODULE Spec2Model ----
(***************************************************************************)
(* Model of monitor_status.py: the scheduler loop (_main), one check cycle *)
(* (_check_once), the page traversal (_fetch_status, _click_login,         *)
(* _dismiss_cookies), the status file (read_last_status /                  *)
(* write_last_status) and the mail sender (_send_email).                   *)
(*                                                                         *)
(* Strings are sequences of one-character strings so that str.strip() is   *)
(* computed, not assumed.  The browser, the page and the mail relay are    *)
(* the environment: every wait and probe draws its outcome with \E.        *)
(***************************************************************************)
EXTENDS Integers, Sequences, FiniteSets, TLC

VARIABLES
    pc,          \* position of the process in _main / _check_once / _fetch_status
    file,        \* content of STATUS_FILE, or NoFile when it does not exist
    status,      \* local `status` of _check_once (value returned by _fetch_status)
    last,        \* local `last` of _check_once
    fetched,     \* TRUE once _fetch_status has returned in this cycle
    sessionOpen, \* TRUE while the Playwright browser session of the cycle is open
    idx,         \* index of the next candidate probed by _click_login
    filled,      \* TRUE once username and password have been filled in this cycle
    cookie,      \* how _dismiss_cookies ended in this cycle ("not_run" before)
    probes,      \* history: the is_visible probes of _click_login, in order
    clicks,      \* history: the selectors clicked in this cycle, in order
    writes,      \* history: the values written to the status file in this cycle
    notified,    \* history: the _send_email calls of this cycle, with their outcome
    summary,     \* history: the summary lines printed by _check_once in this cycle
    error,       \* the exception that ended the cycle, "none" otherwise
    raisedIn,    \* the function the exception was raised in, "none" otherwise
    fileAtStart, \* history: the file content when the cycle started
    file0,       \* history: the file content when the program first started
    delivered,   \* history: the statuses whose notification was delivered
    prevFailed,  \* history: the status whose notification failed in the previous cycle
    lastFailed,  \* history: the status whose notification failed in this cycle
    stages,      \* history: the stages the traversal of this cycle went through
    text,        \* local `text` of _fetch_status (NoText before the extraction)
    quiet        \* history: the status delivered last, while every observation
                 \* since then was that status or the empty string

vars == <<pc, file, status, last, fetched, sessionOpen, idx, filled, cookie,
          probes, clicks, writes, notified, summary, error, raisedIn,
          fileAtStart, file0, delivered, prevFailed, lastFailed, stages,
          text, quiet>>

-----------------------------------------------------------------------------
(* Strings *)

\* a string is a sequence of characters; the three values below stand for
\* "the file does not exist", Python's None and "no status", and are no strings
\* the page or the file can hold
NoFile == <<"NoFile">>
NoText == <<"None">>
NoStatus == <<"NoStatus">>

Whitespace == {" "}

\* str.strip(): remove leading and trailing whitespace
RECURSIVE LStrip(_)
LStrip(s) ==
    IF s # <<>> /\ Head(s) \in Whitespace THEN LStrip(Tail(s)) ELSE s

RECURSIVE RStrip(_)
RStrip(s) ==
    IF s # <<>> /\ s[Len(s)] \in Whitespace
    THEN RStrip(SubSeq(s, 1, Len(s) - 1))
    ELSE s

Strip(s) == RStrip(LStrip(s))

\* the texts the status cell of the monitored page can hold
PageTexts ==
    { <<>>, <<" ">>, <<"a">>, <<" ", "a">>, <<"a", " ">>,
      <<" ", "a", " ", "b", " ">> }

\* a return of `text or ""` without the strip()
TextToStatusRaw(t) == IF t = NoText THEN <<>> ELSE t

\* (text or "").strip() of _fetch_status
TextToStatus(t) == Strip(IF t = NoText THEN <<>> ELSE t)

Statuses == { TextToStatus(t) : t \in PageTexts }

-----------------------------------------------------------------------------
(* Disk I/O *)

\* read_last_status: path.read_text().strip() if path.exists() else ""
read_last_status(f) == IF f # NoFile THEN Strip(f) ELSE <<>>

\* a write that is skipped for the empty status
write_last_status_nonempty(s, f) == IF s = <<>> THEN f ELSE s

\* a write that opens the file in append mode
write_last_status_append(s, f) == IF f = NoFile THEN s ELSE f \o s

\* write_last_status: path.write_text(status) overwrites the file
write_last_status(s, f) == s

-----------------------------------------------------------------------------
(* Selectors *)

COOKIE_ACCEPT == "#onetrust-accept-btn-handler"
LOGIN_BUTTON_ID == "#login"
APPLICATION_TAB == "#main-panel li:nth-child(2) > a"

\* the list `candidates` of _click_login
candidates ==
    << LOGIN_BUTTON_ID,
       "button:has-text(Log in)",
       "text=Log in",
       "button[value=Log in]",
       "button[type=submit]" >>

-----------------------------------------------------------------------------
(* Exceptions *)

\* the RuntimeError of _click_login
LoginControlNotFound == "LoginControlNotFound"
\* playwright's TimeoutError and its other errors
PWTimeoutError == "PWTimeoutError"
PWError == "PWError"
\* smtplib.SMTPAuthenticationError from s.login, any other failure of the relay
AuthenticationRejected == "AuthenticationRejected"
TransportFailure == "TransportFailure"

NotifierErrors == {AuthenticationRejected, TransportFailure}
NavigationErrors == {LoginControlNotFound, PWTimeoutError}

\* the functions of a traversal
FetchFunctions == {"_fetch_status", "_click_login", "_dismiss_cookies"}

\* a traversal whose errors are swallowed and turned into an empty status
PcAfterRaiseSwallowed(where) ==
    IF where \in FetchFunctions THEN "read" ELSE "crashed"

\* where an exception raised in function `where` takes the process: nothing
\* on the way up (_fetch_status, _check_once, asyncio.run, _main) catches it,
\* so the process ends with a traceback
PcAfterRaise(where) == "crashed"

\* an exception that leaves the browser session behind (no `async with`)
RaiseLeavingSession(exc, where) ==
    /\ pc' = PcAfterRaise(where)
    /\ error' = exc
    /\ raisedIn' = where
    /\ UNCHANGED sessionOpen

\* an exception `exc` leaves function `where`: the `async with` block closes
\* the browser session on the way out
Raise(exc, where) ==
    /\ pc' = PcAfterRaise(where)
    /\ error' = exc
    /\ raisedIn' = where
    /\ sessionOpen' = FALSE

-----------------------------------------------------------------------------
(* Initial state: the process has just been started *)

cycleHistory == <<probes, clicks, writes, notified, summary>>
crossHistory == <<file0, delivered>>
traversal == <<idx, filled, cookie>>

Init ==
    /\ pc = "main"
    /\ file \in {NoFile} \cup Statuses
    /\ status = <<>>
    /\ last = <<>>
    /\ fetched = FALSE
    /\ sessionOpen = FALSE
    /\ idx = 1
    /\ filled = FALSE
    /\ cookie = "not_run"
    /\ probes = <<>>
    /\ clicks = <<>>
    /\ writes = <<>>
    /\ notified = <<>>
    /\ summary = <<>>
    /\ error = "none"
    /\ raisedIn = "none"
    /\ fileAtStart = file
    /\ file0 = file
    /\ delivered = {}
    /\ prevFailed = NoStatus
    /\ lastFailed = NoStatus
    /\ stages = <<>>
    /\ text = NoText
    /\ quiet = NoStatus

-----------------------------------------------------------------------------
(* _main *)

\* one iteration of `while True` begins: print the timestamp and enter
\* asyncio.run(_check_once()); the locals of the new cycle are fresh
Main ==
    /\ pc = "main"
    /\ pc' = "launch"
    /\ status' = <<>>
    /\ last' = <<>>
    /\ fetched' = FALSE
    /\ idx' = 1
    /\ filled' = FALSE
    /\ cookie' = "not_run"
    /\ probes' = <<>>
    /\ clicks' = <<>>
    /\ writes' = <<>>
    /\ notified' = <<>>
    /\ summary' = <<>>
    /\ error' = "none"
    /\ raisedIn' = "none"
    /\ fileAtStart' = file
    /\ prevFailed' = lastFailed
    /\ lastFailed' = NoStatus
    /\ stages' = <<>>
    /\ text' = NoText
    /\ UNCHANGED <<file, sessionOpen, crossHistory, quiet>>

\* time.sleep(30*60), then the loop goes round
Sleep ==
    /\ pc = "sleep"
    /\ pc' = "main"
    /\ UNCHANGED <<file, status, last, fetched, sessionOpen, traversal,
                   cycleHistory, error, raisedIn, fileAtStart, crossHistory,
                   prevFailed, lastFailed, stages, text, quiet>>

\* the operator (or a supervisor) runs the script again after it has died;
\* only the status file survives the process
Restart ==
    /\ pc = "crashed"
    /\ pc' = "main"
    /\ UNCHANGED <<file, status, last, fetched, sessionOpen, traversal,
                   cycleHistory, error, raisedIn, fileAtStart, crossHistory,
                   prevFailed, lastFailed, stages, text, quiet>>

-----------------------------------------------------------------------------
(* _fetch_status *)

fetchFrame == <<file, status, last, fetched, cycleHistory, fileAtStart,
                crossHistory, prevFailed, lastFailed, text, quiet>>

\* the traversal notes that it went through `stage` with `result`
Stage(stage, result) == stages' = Append(stages, <<stage, result>>)

\* chromium.launch, new_context, new_page inside `async with`
Launch ==
    /\ pc = "launch"
    /\ pc' = "goto"
    /\ sessionOpen' = TRUE
    /\ Stage("Session", "opened")
    /\ UNCHANGED <<fetchFrame, traversal, error, raisedIn>>

\* page.goto(..., wait_until="networkidle", timeout=CHECK_TIMEOUT_MS): it
\* returns, or raises TimeoutError, which nothing catches
Goto ==
    /\ pc = "goto"
    /\ \E loaded \in BOOLEAN :
          IF loaded
          THEN /\ pc' = "login_check"
               /\ Stage("Load", "ok")
               /\ UNCHANGED <<error, raisedIn, sessionOpen>>
          ELSE /\ Raise(PWTimeoutError, "_fetch_status")
               /\ Stage("Load", "timeout")
    /\ UNCHANGED <<fetchFrame, traversal>>

\* a login that is attempted whether or not the username input is visible
AfterLoginCheckAlways(visible) == "fill"

\* the branch of `if await page.is_visible('input[name="username"]')`
AfterLoginCheck(visible) == IF visible THEN "fill" ELSE "tab_check"

\* if await page.is_visible('input[name="username"]')
LoginCheck ==
    /\ pc = "login_check"
    /\ \E visible \in BOOLEAN :
          /\ pc' = AfterLoginCheck(visible)
          /\ Stage("ConditionalLogin", IF visible THEN "visible" ELSE "absent")
    /\ UNCHANGED <<fetchFrame, traversal, error, raisedIn, sessionOpen>>

\* a _click_login that goes straight to its candidates
FillSkipCookies ==
    /\ pc = "fill"
    /\ pc' = "probe"
    /\ filled' = TRUE
    /\ UNCHANGED <<fetchFrame, idx, cookie, error, raisedIn, sessionOpen,
                   stages>>

\* page.fill username, page.fill password, then call _click_login
Fill ==
    /\ pc = "fill"
    /\ pc' = "dismiss"
    /\ filled' = TRUE
    /\ UNCHANGED <<fetchFrame, idx, cookie, error, raisedIn, sessionOpen,
                   stages>>

-----------------------------------------------------------------------------
(* _dismiss_cookies *)

\* what the page does to the three calls inside the try block
CookieOutcomes == {"absent", "click_failed", "still_attached", "dismissed"}

\* the exception the try block of _dismiss_cookies ends with: the first
\* wait_for_selector times out, page.click fails, the wait for
\* state="detached" times out, or none
DismissException(outcome) ==
    CASE outcome = "absent" -> PWTimeoutError
      [] outcome = "click_failed" -> PWError
      [] outcome = "still_attached" -> PWTimeoutError
      [] outcome = "dismissed" -> "none"

\* an `except` clause that names playwright's TimeoutError only
DismissCatchesTimeoutOnly(exc) ==
    exc = PWTimeoutError

\* `except Exception: pass` catches every exception of the try block
DismissCatches(exc) ==
    exc \in {PWTimeoutError, PWError}

\* _click_login calls _dismiss_cookies before it probes any candidate
DismissCookies ==
    /\ pc = "dismiss"
    /\ \E outcome \in CookieOutcomes :
          LET exc == DismissException(outcome) IN
          /\ cookie' = outcome
          /\ Stage("CookieConsent", outcome)
          /\ clicks' = IF outcome \in {"still_attached", "dismissed"}
                       THEN Append(clicks, COOKIE_ACCEPT)
                       ELSE clicks
          /\ IF exc = "none" \/ DismissCatches(exc)
             THEN /\ pc' = "probe"
                  /\ UNCHANGED <<error, raisedIn, sessionOpen>>
             ELSE Raise(exc, "_dismiss_cookies")
    /\ UNCHANGED <<file, status, last, fetched, idx, filled, probes, writes,
                   notified, summary, fileAtStart, crossHistory, prevFailed,
                   lastFailed, text, quiet>>

-----------------------------------------------------------------------------
(* _click_login *)

\* one iteration of `for sel in candidates` on candidate i, whose is_visible
\* probe answered `visible`: click and return, go on to the next candidate,
\* or fall out of the loop into the raise.
\* First the loop without its `return`: it goes on after a click
ClickLoginStepNoReturn(i, visible) ==
    [click |-> visible,
     next |-> IF i < Len(candidates) THEN "continue" ELSE "raise"]

ClickLoginStep(i, visible) ==
    IF visible
    THEN [click |-> TRUE, next |-> "return"]
    ELSE [click |-> FALSE,
          next |-> IF i < Len(candidates) THEN "continue" ELSE "raise"]

ClickLogin ==
    /\ pc = "probe"
    /\ \E visible \in BOOLEAN :
          LET r == ClickLoginStep(idx, visible) IN
          /\ probes' = Append(probes, [sel |-> candidates[idx],
                                       visible |-> visible])
          /\ clicks' = IF r.click THEN Append(clicks, candidates[idx])
                       ELSE clicks
          /\ CASE r.next = "return" ->
                    /\ pc' = "login_idle"
                    /\ UNCHANGED <<idx, error, raisedIn, sessionOpen>>
               [] r.next = "continue" ->
                    /\ pc' = "probe"
                    /\ idx' = idx + 1
                    /\ UNCHANGED <<error, raisedIn, sessionOpen>>
               [] r.next = "raise" ->
                    /\ Raise(LoginControlNotFound, "_click_login")
                    /\ UNCHANGED idx
    /\ UNCHANGED <<file, status, last, fetched, filled, cookie, writes,
                   notified, summary, fileAtStart, crossHistory, prevFailed,
                   lastFailed, stages, text, quiet>>

-----------------------------------------------------------------------------
(* _fetch_status, after the login *)

\* await page.wait_for_load_state("networkidle") after _click_login: no
\* try block around it
LoginIdle ==
    /\ pc = "login_idle"
    /\ \E idle \in BOOLEAN :
          IF idle
          THEN /\ pc' = "tab_check"
               /\ Stage("LoginIdle", "ok")
               /\ UNCHANGED <<error, raisedIn, sessionOpen>>
          ELSE /\ Raise(PWTimeoutError, "_fetch_status")
               /\ Stage("LoginIdle", "timeout")
    /\ UNCHANGED <<fetchFrame, traversal>>

\* if await page.is_visible(APPLICATION_TAB, ...)
TabCheck ==
    /\ pc = "tab_check"
    /\ \E visible \in BOOLEAN :
          /\ pc' = IF visible THEN "tab_click" ELSE "extract"
          /\ Stage("TabNavigation", IF visible THEN "visible" ELSE "absent")
    /\ UNCHANGED <<fetchFrame, traversal, error, raisedIn, sessionOpen>>

\* page.click(APPLICATION_TAB), then wait_for_load_state("networkidle")
TabClick ==
    /\ pc = "tab_click"
    /\ clicks' = Append(clicks, APPLICATION_TAB)
    /\ \E idle \in BOOLEAN :
          IF idle
          THEN /\ pc' = "extract"
               /\ Stage("TabIdle", "ok")
               /\ UNCHANGED <<error, raisedIn, sessionOpen>>
          ELSE /\ Raise(PWTimeoutError, "_fetch_status")
               /\ Stage("TabIdle", "timeout")
    /\ UNCHANGED <<file, status, last, fetched, traversal, probes, writes,
                   notified, summary, fileAtStart, crossHistory, prevFailed,
                   lastFailed, text, quiet>>

\* the try block around wait_for_selector / text_content: a timeout leaves
\* text = None; the function returns (text or "").strip() and the
\* `async with` block closes the session
Extract ==
    /\ pc = "extract"
    /\ \E found \in BOOLEAN, content \in PageTexts \cup {NoText} :
          /\ text' = IF found THEN content ELSE NoText
          /\ Stage("StatusExtraction", IF found THEN "found" ELSE "timeout")
    /\ status' = TextToStatus(text')
    /\ quiet' = IF status' \in {quiet, <<>>} THEN quiet ELSE NoStatus
    /\ fetched' = TRUE
    /\ sessionOpen' = FALSE
    /\ pc' = "read"
    /\ UNCHANGED <<file, last, traversal, cycleHistory, error, raisedIn,
                   fileAtStart, crossHistory, prevFailed, lastFailed>>

-----------------------------------------------------------------------------
(* _check_once *)

\* last = read_last_status()
ReadLast ==
    /\ pc = "read"
    /\ last' = read_last_status(file)
    /\ pc' = "compare"
    /\ UNCHANGED <<file, status, fetched, sessionOpen, traversal,
                   cycleHistory, error, raisedIn, fileAtStart, crossHistory,
                   prevFailed, lastFailed, stages, text, quiet>>

\* a comparison against the empty string instead of `last`
ChangedIfNonEmpty(s, l) == s # <<>>

\* if status != last
Changed(s, l) == s # l

\* a notification that is sent for an empty status as well
ShouldNotifyAlways(s) == TRUE

\* if status
ShouldNotify(s) == s # <<>>

\* `if status != last: write_last_status(status)`, then `if status:`
CheckChanged ==
    /\ pc = "compare"
    /\ IF Changed(status, last)
       THEN /\ file' = write_last_status(status, file)
            /\ writes' = Append(writes, status)
            /\ pc' = IF ShouldNotify(status) THEN "send" ELSE "print_changed"
       ELSE /\ pc' = "print_nochange"
            /\ UNCHANGED <<file, writes>>
    /\ UNCHANGED <<status, last, fetched, sessionOpen, traversal, probes,
                   clicks, notified, summary, error, raisedIn, fileAtStart,
                   crossHistory, prevFailed, lastFailed, stages, text, quiet>>

\* what the mail relay does to _send_email
SendOutcomes == {"sent", AuthenticationRejected, TransportFailure}

\* print(status); _send_email(status): SMTP_SSL connect, s.login,
\* s.send_message; an exception of any of them leaves _check_once
SendEmail ==
    /\ pc = "send"
    /\ \E outcome \in SendOutcomes :
          /\ notified' = Append(notified, [status |-> status,
                                           outcome |-> outcome])
          /\ IF outcome = "sent"
             THEN /\ pc' = "print_changed"
                  /\ delivered' = delivered \cup {status}
                  /\ quiet' = status
                  /\ UNCHANGED <<error, raisedIn, sessionOpen, lastFailed>>
             ELSE /\ Raise(outcome, "_send_email")
                  /\ lastFailed' = status
                  /\ UNCHANGED <<delivered, quiet>>
    /\ UNCHANGED <<file, status, last, fetched, traversal, probes, clicks,
                   writes, summary, fileAtStart, file0, prevFailed, stages,
                   text>>

\* last or '[none]', status or '[empty]'
Render(s, placeholder) == IF s = <<>> THEN placeholder ELSE s

\* print(f"Status changed: {last or '[none]'} -> {status or '[empty]'}")
PrintChanged ==
    /\ pc = "print_changed"
    /\ summary' = Append(summary, <<"Status changed", Render(last, <<"[none]">>),
                                    Render(status, <<"[empty]">>)>>)
    /\ pc' = "sleep"
    /\ UNCHANGED <<file, status, last, fetched, sessionOpen, traversal,
                   probes, clicks, writes, notified, error, raisedIn,
                   fileAtStart, crossHistory, prevFailed, lastFailed, stages,
                   text, quiet>>

\* print("No change detected.")
PrintNoChange ==
    /\ pc = "print_nochange"
    /\ summary' = Append(summary, <<"No change detected.">>)
    /\ pc' = "sleep"
    /\ UNCHANGED <<file, status, last, fetched, sessionOpen, traversal,
                   probes, clicks, writes, notified, error, raisedIn,
                   fileAtStart, crossHistory, prevFailed, lastFailed, stages,
                   text, quiet>>

-----------------------------------------------------------------------------
(* The program *)

Next ==
    \/ Main
    \/ Launch
    \/ Goto
    \/ LoginCheck
    \/ Fill
    \/ DismissCookies
    \/ ClickLogin
    \/ LoginIdle
    \/ TabCheck
    \/ TabClick
    \/ Extract
    \/ ReadLast
    \/ CheckChanged
    \/ SendEmail
    \/ PrintChanged
    \/ PrintNoChange
    \/ Sleep
    \/ Restart

Spec == Init /\ [][Next]_vars

TypeOK ==
    /\ pc \in {"main", "launch", "goto", "login_check", "fill", "dismiss",
                "probe", "login_idle", "tab_check", "tab_click", "extract",
                "read", "compare", "send", "print_changed", "print_nochange",
                "sleep", "crashed"}
    /\ file \in {NoFile} \cup Statuses
    /\ status \in Statuses
    /\ last \in Statuses
    /\ idx \in 1..Len(candidates)
    /\ delivered \subseteq Statuses

-----------------------------------------------------------------------------
(* Properties *)

\* the value read() returns for the present file
Stored == read_last_status(file)

\* the cycle has obtained a status, read the store and taken its decision
Decided == fetched /\ pc \notin {"read", "compare"}

\* a cycle that obtained a status has run to its end (normally or by an
\* exception of the Notifier)
CycleDone == fetched /\ pc \in {"sleep", "crashed", "main"}

\* the clicks of this cycle on login-button candidates
IsCandidate(sel) == \E k \in 1..Len(candidates) : candidates[k] = sel
LoginClicks == SelectSeq(clicks, IsCandidate)

\* C1: a cycle with stored value a and observed value b, a # b and b
\* non-empty, calls the Notifier exactly once with b, writes b to the store
\* only if that call succeeds, and leaves a in the store if the call fails.
C1_WriteOnlyAfterDelivery ==
    (CycleDone /\ status # last /\ status # <<>>) =>
        /\ Len(notified) = 1
        /\ notified[1].status = status
        /\ (writes # <<>> => writes = <<status>> /\ notified[1].outcome = "sent")
        /\ (notified[1].outcome # "sent" => Stored = last)

\* C2: a cycle with stored value a and observed value b, a = b, performs no
\* store write and no Notifier call.
C2_NoChangeNoEffect ==
    (Decided /\ status = last) =>
        /\ writes = <<>>
        /\ notified = <<>>
        /\ file = fileAtStart

C2_Witness ==
    /\ pc = "sleep"
    /\ fetched
    /\ status = last
    /\ status = <<"a", " ", "b">>
    /\ summary = << <<"No change detected.">> >>

\* C3: a cycle that observes the empty string while the stored value is
\* non-empty writes nothing: the stored value is the same afterwards.
C3_EmptyNeverOverwrites ==
    (Decided /\ status = <<>> /\ last # <<>>) =>
        /\ writes = <<>>
        /\ Stored = last

\* C4: when the Notifier failed in the previous cycle for the changed status
\* b, a cycle that observes b again still sees a change and calls the
\* Notifier with b again.
C4_FailedNotificationRetried ==
    (CycleDone /\ prevFailed # NoStatus /\ status = prevFailed) =>
        /\ status # last
        /\ Len(notified) = 1
        /\ notified[1].status = status

\* C5: between cycles the stored record is its initial value or a status
\* whose notification was delivered.
C5_StoreOnlyReported ==
    (pc \in {"main", "sleep", "crashed"}) =>
        \/ Stored = read_last_status(file0)
        \/ Stored \in delivered

\* C6: _click_login probes the candidates in their fixed order, the unique
\* id first; it clicks exactly the first candidate found visible and no
\* other; when none is visible it clicks nothing and raises
\* LoginControlNotFound.
C6_FirstVisibleClicked ==
    /\ Len(probes) <= Len(candidates)
    /\ \A k \in 1..Len(probes) : probes[k].sel = candidates[k]
    /\ probes # <<>> => probes[1].sel = LOGIN_BUTTON_ID
    /\ \A k \in 1..(Len(probes) - 1) : ~probes[k].visible
    /\ pc = "probe" =>
          /\ LoginClicks = <<>>
          /\ \A k \in 1..Len(probes) : ~probes[k].visible
    /\ (probes # <<>> /\ pc # "probe") =>
          IF probes[Len(probes)].visible
          THEN /\ LoginClicks = <<probes[Len(probes)].sel>>
               /\ raisedIn # "_click_login"
          ELSE /\ LoginClicks = <<>>
               /\ Len(probes) = Len(candidates)
               /\ raisedIn = "_click_login"
               /\ error = LoginControlNotFound
               /\ pc \in {"crashed", "main"}
    /\ probes = <<>> => LoginClicks = <<>>

C6_Witness ==
    /\ pc = "login_idle"
    /\ Len(probes) = 3
    /\ ~probes[1].visible /\ ~probes[2].visible /\ probes[3].visible
    /\ LoginClicks = <<candidates[3]>>

\* C7: _dismiss_cookies never raises: whether the consent control is absent,
\* the click fails or the control stays attached, the stage completes and
\* _click_login goes on to probe the candidates.
C7_DismissNeverRaises ==
    /\ raisedIn # "_dismiss_cookies"
    /\ cookie # "not_run" => (pc = "probe" \/ probes # <<>>)

C7_Witness ==
    /\ cookie = "click_failed"
    /\ pc = "login_idle"
    /\ error = "none"

\* C8: after write(s), read() returns s exactly; with no record present
\* read() returns the empty string.
C8_RoundTrip ==
    /\ writes # <<>> => Stored = writes[Len(writes)]
    /\ (Decided /\ fileAtStart = NoFile) => last = <<>>

C8_Witness ==
    /\ pc = "sleep"
    /\ fileAtStart = <<"a">>
    /\ writes = << <<"a", " ", "b">> >>
    /\ Stored = <<"a", " ", "b">>

\* C9: a cycle aborted before a status is returned writes nothing to the
\* store and calls no Notifier: the stored value is unchanged.
C9_AbortNoEffect ==
    ~fetched =>
        /\ writes = <<>>
        /\ notified = <<>>
        /\ file = fileAtStart

C9_Witness ==
    /\ pc = "crashed"
    /\ error = LoginControlNotFound
    /\ ~fetched
    /\ file = <<"a">>

\* C10: a failure of a cycle (LoginControlNotFound or a timeout during
\* navigation, AuthenticationRejected or TransportFailure from the Notifier)
\* does not stop the loop of _main.
C10_LoopSurvivesCycleFailure ==
    (error \in NavigationErrors \cup NotifierErrors) => pc # "crashed"

\* the last stage the traversal of this cycle went through
LastStage == IF stages = <<>> THEN <<"none", "none">> ELSE stages[Len(stages)]

\* C11: every cycle that reaches its decision prints exactly one summary
\* line, the no-change line or the changed line with the old value (empty
\* shown as "[none]") and the new value (empty shown as "[empty]"), also when
\* the Notifier fails.
C11_OneSummaryLine ==
    (fetched /\ pc \in {"sleep", "crashed"}) =>
        /\ Len(summary) = 1
        /\ \/ summary[1] = <<"No change detected.">>
           \/ summary[1] = <<"Status changed",
                             IF last = <<>> THEN <<"[none]">> ELSE last,
                             IF status = <<>> THEN <<"[empty]">> ELSE status>>

\* s is t without its leading and trailing whitespace
IsTrimOf(s, t) ==
    /\ \E i, j \in 0..Len(t) :
          /\ i + j <= Len(t)
          /\ s = SubSeq(t, i + 1, Len(t) - j)
          /\ \A k \in 1..i : t[k] \in Whitespace
          /\ \A k \in (Len(t) - j + 1)..Len(t) : t[k] \in Whitespace
    /\ s # <<>> => (s[1] \notin Whitespace /\ s[Len(s)] \notin Whitespace)

\* C12: when the wait for the status cell times out the traversal does not
\* fail and returns the empty string; when the cell is found it returns the
\* cell's text without leading and trailing whitespace.
C12_ExtractionTolerant ==
    /\ LastStage[1] = "StatusExtraction" =>
          /\ fetched
          /\ raisedIn \notin FetchFunctions
          /\ LastStage[2] = "timeout" => status = <<>>
          /\ (LastStage[2] = "found" /\ text # NoText) => IsTrimOf(status, text)
          /\ (LastStage[2] = "found" /\ text = NoText) => status = <<>>
    /\ fetched => LastStage[1] = "StatusExtraction"

C12_Witness ==
    /\ pc = "read"
    /\ LastStage = <<"StatusExtraction", "found">>
    /\ text = <<" ", "a", " ", "b", " ">>
    /\ status = <<"a", " ", "b">>

\* C13: a timeout of the Load stage is not fatal: the traversal goes on to
\* the next stage.
C13_LoadTimeoutNonFatal ==
    LastStage = <<"Load", "timeout">> => pc = "login_check"

\* C14: a timeout of the network-idle wait after the login click or after
\* the tab click, or an applications tab that does not show, is recovered
\* locally and the traversal goes on; after Load, LoginControlNotFound is the
\* only outcome that aborts a traversal.
C14_WaitsAfterLoadTolerant ==
    /\ LastStage = <<"LoginIdle", "timeout">> => pc = "tab_check"
    /\ LastStage = <<"TabNavigation", "absent">> => pc = "extract"
    /\ LastStage = <<"TabIdle", "timeout">> => pc = "extract"
    /\ (raisedIn \in FetchFunctions /\ LastStage[1] # "Load") =>
          error = LoginControlNotFound

\* the stages of stage log `log`, by name
StageNames(log) == [k \in 1..Len(log) |-> log[k][1]]
HasStage(stage, result) == \E k \in 1..Len(stages) : stages[k] = <<stage, result>>
StageRun(stage) == \E k \in 1..Len(stages) : stages[k][1] = stage

\* the place of a stage in the required order Load, CookieConsent,
\* ConditionalLogin, TabNavigation, StatusExtraction; the waits for
\* network-idle belong to the stage of the click before them
RequiredRank(stage) ==
    CASE stage = "Session" -> 0
      [] stage = "Load" -> 1
      [] stage = "CookieConsent" -> 2
      [] stage = "ConditionalLogin" -> 3
      [] stage = "LoginIdle" -> 3
      [] stage = "TabNavigation" -> 4
      [] stage = "TabIdle" -> 4
      [] stage = "StatusExtraction" -> 5

\* the order the code runs in: cookie dismissal is a step of the login
CodeRank(stage) ==
    CASE stage = "Session" -> 0
      [] stage = "Load" -> 1
      [] stage = "ConditionalLogin" -> 2
      [] stage = "CookieConsent" -> 3
      [] stage = "LoginIdle" -> 4
      [] stage = "TabNavigation" -> 5
      [] stage = "TabIdle" -> 6
      [] stage = "StatusExtraction" -> 7

\* inside _click_login the cookie dismissal comes before every probe and
\* every click of a login-button candidate
DismissBeforeLoginClick ==
    /\ pc = "dismiss" => (probes = <<>> /\ LoginClicks = <<>>)
    /\ (probes # <<>> \/ LoginClicks # <<>>) => StageRun("CookieConsent")
    /\ \A i, j \in 1..Len(clicks) :
          (IsCandidate(clicks[i]) /\ clicks[j] = COOKIE_ACCEPT) => j < i

C16_AtMostOncePerStatus ==
    [][quiet # NoStatus =>
          ~(/\ Len(notified') > Len(notified)
            /\ notified'[Len(notified')].outcome = "sent")]_vars

\* C17: the Notifier is never called with the empty string and never more
\* than once in a cycle; it is called only when the observed status is
\* non-empty and differs from the stored value.
C17_NotifierGuard ==
    /\ Len(notified) <= 1
    /\ \A k \in 1..Len(notified) : notified[k].status # <<>>
    /\ notified # <<>> =>
          /\ fetched
          /\ notified[1].status = status
          /\ status # last
    /\ pc = "send" => (status # <<>> /\ status # last /\ notified = <<>>)

C17_Witness ==
    /\ pc = "print_changed"
    /\ last = <<"a", " ", "b">>
    /\ notified = <<[status |-> <<"a">>, outcome |-> "sent"]>>

\* C18: every cycle opens one fresh browser session, and the session is
\* closed when the traversal returns or aborts: none is open after the
\* traversal or when the next cycle begins.
C18_SessionClosedWithCycle ==
    /\ sessionOpen => pc \in {"goto", "login_check", "fill", "dismiss", "probe",
                               "login_idle", "tab_check", "tab_click", "extract"}
    /\ pc = "launch" => (~sessionOpen /\ stages = <<>>)
    /\ pc \notin {"main", "launch"} =>
          /\ stages # <<>>
          /\ stages[1] = <<"Session", "opened">>
          /\ \A k \in 2..Len(stages) : stages[k][1] # "Session"

C18_Witness ==
    /\ pc = "crashed"
    /\ LastStage = <<"TabIdle", "timeout">>
    /\ stages[1] = <<"Session", "opened">>
    /\ ~sessionOpen

\* C19: the credentials are filled and LoginClick runs only when the
\* username input is visible after Load; when it is not, nothing is filled,
\* no login control is clicked and the traversal cannot end in
\* LoginControlNotFound.
C19_LoginOnlyWhenVisible ==
    /\ (\/ filled
        \/ cookie # "not_run"
        \/ probes # <<>>
        \/ LoginClicks # <<>>
        \/ error = LoginControlNotFound
        \/ pc \in {"fill", "dismiss", "probe", "login_idle"})
          => HasStage("ConditionalLogin", "visible")
    /\ HasStage("ConditionalLogin", "absent") =>
          /\ ~HasStage("ConditionalLogin", "visible")
          /\ ~filled
          /\ cookie = "not_run"
          /\ probes = <<>>
          /\ LoginClicks = <<>>
          /\ error # LoginControlNotFound

C19_Witness ==
    /\ pc = "sleep"
    /\ HasStage("ConditionalLogin", "absent")
    /\ ~filled
    /\ clicks = <<APPLICATION_TAB>>

\* C20: after a cycle that completes without raising, read() returns the
\* status observed in that cycle.
C20_StoreAgreesWithObservation ==
    (fetched /\ pc = "sleep") => Stored = status

C20_Witness ==
    /\ pc = "sleep"
    /\ last = <<"a">>
    /\ status = <<>>
    /\ writes = << <<>> >>
    /\ Stored = <<>>

====
